---- MODULE Spec2Model ----
(***************************************************************************)
(* A model of SimpleVector<Type> (simple_vector.h) and of the ArrayPtr     *)
(* buffer owner it wraps.  Type is modelled as an integer-like element:    *)
(* copying and moving an element both transfer its value.                  *)
(*                                                                         *)
(* The heap is a map from buffer identities to the slots of the buffer; a  *)
(* vector object is its three fields data_, size_ and capacity_.  Slot i   *)
(* of a buffer (0-based, as in the code) is element i+1 of the sequence.    *)
(* new Type[n] leaves the n slots indeterminate: every handler that        *)
(* allocates takes the slots' initial contents as a nondeterministic input.*)
(* A store outside the bounds of its buffer is recorded in `ub`; it lands  *)
(* in a slot of a buffer that lies next to it in memory, or in no slot of   *)
(* the model, the layout of the heap being a nondeterministic input too.    *)
(***************************************************************************)
EXTENDS Integers, Sequences, FiniteSets, TLC

\* the slots the vectors own in total: a program with one vector object
MaxCap == 4

\* the slots the vectors own in total: a program with several vector objects
MaxPairCap == 3

\* the slots the vectors own in total, and those of the vector that is
\* copied: a program with a vector and a copy of it that is then mutated
MaxCopyCap == 5
MaxSrcCap == 1

\* the slots the vectors own in total, and those of the source: a program
\* that constructs and assigns one vector from another
MaxTransferCap == 5
MaxFromCap == 2

capacity_multiplier == 2

\* Type{}
DefaultValue == 0

Values == {0, 1}

\* the vector objects of the program
Vecs == {"a", "b"}

\* ArrayPtr's raw_ptr_ == nullptr
Null == 0

\* buffer identities (addresses): one per vector plus the temporary of Realloc
BufIds == 1..(Cardinality(Vecs) + 1)

VARIABLES
    mem,         \* heap: BufIds -> the slots of the buffer, <<>> when not allocated
    alive,       \* the vectors that are constructed and not yet destroyed
    data_,       \* Vecs -> the buffer ArrayPtr data_ owns, or Null
    size_,       \* Vecs -> size_
    capacity_,   \* Vecs -> capacity_
    ub,          \* "none", or "oob_write" once a store fell outside its buffer
    call         \* the last call: operation, object, arguments, result

vars == <<mem, alive, data_, size_, capacity_, ub, call>>

----------------------------------------------------------------------------
(* The machine state a handler transforms, and the primitives it uses.      *)

Cur ==
    [mem |-> mem, alive |-> alive, data |-> data_, size |-> size_,
     cap |-> capacity_, oob |-> FALSE, ret |-> <<>>,
     oom |-> FALSE, exc |-> "none", thrown |-> <<>>, spill |-> Null]

\* the machine with no memory left for the next new Type[n]
OutOfMemory == [Cur EXCEPT !.oom = TRUE]

\* throw e: what the call has done so far is kept in thrown, and the
\* statements after the throw do not count (see Landed)
Throw(S, e) ==
    IF S.exc # "none" THEN S ELSE [S EXCEPT !.exc = e, !.thrown = <<S>>]

\* the state a call leaves: the one at its end, or, no handler of the vector
\* having a catch, the one at its throw
Landed(S) == IF S.exc = "none" THEN S ELSE S.thrown[1]

\* the indeterminate contents of n freshly allocated slots
Garbage(n) == [1..n -> Values]

\* the address the allocator hands out
NewId(S) ==
    CHOOSE b \in BufIds :
        /\ S.mem[b] = <<>>
        /\ \A o \in BufIds : S.mem[o] = <<>> => b <= o

\* ArrayPtr(size_t size): new Type[size], or nullptr when size == 0
ArrayPtrNew(S, n, c) ==
    IF n = 0
    THEN [S |-> S, p |-> Null]
    ELSE IF S.oom
    THEN [S |-> Throw(S, "bad_alloc"), p |-> Null]
    ELSE LET b == NewId(S)
         IN  [S |-> [S EXCEPT !.mem[b] = c], p |-> b]

\* ~ArrayPtr(): delete[] raw_ptr_
ArrayPtrDelete(S, p) ==
    IF p = Null THEN S ELSE [S EXCEPT !.mem[p] = <<>>]

\* the slot of buffer q a store at p[i], outside p, lands in when q lies
\* next to p in memory: below it for i < 0, above it otherwise
SpillSlot(S, p, q, i) ==
    IF i < 0 THEN Len(S.mem[q]) + i ELSE i - Len(S.mem[p])

\* p[i] = x; a store outside the buffer is undefined: it lands in the
\* neighbouring buffer S.spill, or in no slot of any buffer
Store(S, p, i, x) ==
    IF p # Null /\ i >= 0 /\ i < Len(S.mem[p])
    THEN [S EXCEPT !.mem[p][i + 1] = x]
    ELSE IF /\ p # Null /\ S.spill # Null /\ S.spill # p
            /\ SpillSlot(S, p, S.spill, i) >= 0
            /\ SpillSlot(S, p, S.spill, i) < Len(S.mem[S.spill])
         THEN [S EXCEPT !.oob = TRUE,
                        !.mem[S.spill][SpillSlot(S, p, S.spill, i) + 1] = x]
         ELSE [S EXCEPT !.oob = TRUE]

\* p[i]
Load(S, p, i) == S.mem[p][i + 1]

RECURSIVE std_copy(_, _, _, _, _, _)
\* std::copy(sp + first, sp + last, dp + d_first): front to back
std_copy(S, sp, first, last, dp, d_first) ==
    IF first >= last
    THEN S
    ELSE std_copy(Store(S, dp, d_first, Load(S, sp, first)),
                  sp, first + 1, last, dp, d_first + 1)

RECURSIVE std_copy_backward(_, _, _, _, _, _)
\* std::copy_backward(sp + first, sp + last, dp + d_last): back to front
std_copy_backward(S, sp, first, last, dp, d_last) ==
    IF first >= last
    THEN S
    ELSE std_copy_backward(Store(S, dp, d_last - 1, Load(S, sp, last - 1)),
                           sp, first, last - 1, dp, d_last - 1)

RECURSIVE std_fill(_, _, _, _, _)
\* std::fill(p + first, p + last, x)
std_fill(S, p, first, last, x) ==
    IF first >= last
    THEN S
    ELSE std_fill(Store(S, p, first, x), p, first + 1, last, x)

\* the capacity Realloc allocates for a request of new_capacity
ReallocCap(new_capacity) == IF new_capacity = 0 THEN 1 ELSE new_capacity

\* Realloc without its capacity_ = new_capacity
Realloc_KeepsCapacity(S, v, new_capacity, c) ==
    LET nc == ReallocCap(new_capacity)
        A  == ArrayPtrNew(S, nc, c)
    IN  [S   |-> [A.S EXCEPT !.data[v] = A.p],
         tmp |-> S.data[v]]

\* Realloc that sets capacity_ before it allocates
Realloc_SetsCapacityFirst(S, v, new_capacity, c) ==
    LET nc == ReallocCap(new_capacity)
        A  == ArrayPtrNew([S EXCEPT !.cap[v] = nc], nc, c)
    IN  [S   |-> [A.S EXCEPT !.data[v] = A.p],
         tmp |-> S.data[v]]

\* SimpleVector::Realloc: the new buffer is swapped in, the old one is returned
Realloc(S, v, new_capacity, c) ==
    LET nc == ReallocCap(new_capacity)
        A  == ArrayPtrNew(S, nc, c)
    IN  [S   |-> [A.S EXCEPT !.data[v] = A.p, !.cap[v] = nc],
         tmp |-> S.data[v]]

----------------------------------------------------------------------------
(* The handlers of SimpleVector, as functions of the machine state.         *)

\* SimpleVector() noexcept = default
CtorDefault(S, v) ==
    [S EXCEPT !.alive = @ \cup {v}, !.data[v] = Null, !.size[v] = 0, !.cap[v] = 0]

\* explicit SimpleVector(size_t size)
CtorSize(S, v, size, c) ==
    LET A  == ArrayPtrNew(S, size, c)
        S1 == [A.S EXCEPT !.alive = @ \cup {v}, !.data[v] = A.p,
                          !.size[v] = size, !.cap[v] = size]
    IN  std_fill(S1, A.p, 0, size, DefaultValue)

\* explicit SimpleVector(const ReserveProxyObj&)
CtorReserve(S, v, n, c) ==
    LET A == ArrayPtrNew(S, n, c)
    IN  [A.S EXCEPT !.alive = @ \cup {v}, !.data[v] = A.p,
                    !.size[v] = 0, !.cap[v] = n]

\* SimpleVector(size_t size, const Type& value)
CtorFill(S, v, size, value, c) ==
    LET A  == ArrayPtrNew(S, size, c)
        S1 == [A.S EXCEPT !.alive = @ \cup {v}, !.data[v] = A.p,
                          !.size[v] = size, !.cap[v] = size]
    IN  std_fill(S1, A.p, 0, size, value)

RECURSIVE CopyList(_, _, _, _)
\* std::copy(init.begin(), init.end(), p) from element i of the list on
CopyList(S, init, i, p) ==
    IF i >= Len(init)
    THEN S
    ELSE CopyList(Store(S, p, i, init[i + 1]), init, i + 1, p)

\* SimpleVector(std::initializer_list<Type> init)
CtorInit(S, v, init, c) ==
    LET A  == ArrayPtrNew(S, Len(init), c)
        S1 == [A.S EXCEPT !.alive = @ \cup {v}, !.data[v] = A.p,
                          !.size[v] = Len(init), !.cap[v] = Len(init)]
    IN  CopyList(S1, init, 0, A.p)

\* SimpleVector(const SimpleVector& other)
CtorCopy(S, v, other, c) ==
    LET A  == ArrayPtrNew(S, S.cap[other], c)
        S1 == [A.S EXCEPT !.alive = @ \cup {v}, !.data[v] = A.p,
                          !.size[v] = S.size[other], !.cap[v] = S.cap[other]]
    IN  std_copy(S1, S.data[other], 0, S.size[other], A.p, 0)

\* a move constructor that leaves other its capacity_
CtorMove_KeepsSourceCapacity(S, v, other) ==
    [S EXCEPT !.alive   = @ \cup {v},
              !.data    = [@ EXCEPT ![v] = S.data[other], ![other] = Null],
              !.size    = [@ EXCEPT ![v] = S.size[other], ![other] = 0],
              !.cap     = [@ EXCEPT ![v] = S.cap[other]]]

\* SimpleVector(SimpleVector&& other) noexcept
CtorMove(S, v, other) ==
    [S EXCEPT !.alive   = @ \cup {v},
              !.data    = [@ EXCEPT ![v] = S.data[other], ![other] = Null],
              !.size    = [@ EXCEPT ![v] = S.size[other], ![other] = 0],
              !.cap     = [@ EXCEPT ![v] = S.cap[other], ![other] = 0]]

\* ~SimpleVector(): releases data_
Dtor(S, v) ==
    LET S1 == ArrayPtrDelete(S, S.data[v])
    IN  [S1 EXCEPT !.alive = @ \ {v}, !.data[v] = Null, !.size[v] = 0, !.cap[v] = 0]

\* a copy assignment that reuses the buffer and forgets size_ = rhs.size_
AssignCopy_KeepsSize(S, v, rhs, c) ==
    IF v = rhs
    THEN S
    ELSE IF S.size[v] > S.size[rhs] \/ S.cap[v] >= S.cap[rhs]
         THEN std_copy(S, S.data[rhs], 0, S.size[rhs], S.data[v], 0)
         ELSE LET R  == Realloc(S, v, S.cap[rhs], c)
                  S1 == ArrayPtrDelete(R.S, R.tmp)
                  S2 == [S1 EXCEPT !.size[v] = S.size[rhs]]
              IN  std_copy(S2, S.data[rhs], 0, S.size[rhs], S2.data[v], 0)

\* SimpleVector& operator=(const SimpleVector& rhs)
AssignCopy(S, v, rhs, c) ==
    IF v = rhs
    THEN S
    ELSE IF S.size[v] > S.size[rhs] \/ S.cap[v] >= S.cap[rhs]
         THEN LET S1 == std_copy(S, S.data[rhs], 0, S.size[rhs], S.data[v], 0)
              IN  [S1 EXCEPT !.size[v] = S.size[rhs]]
         ELSE LET R  == Realloc(S, v, S.cap[rhs], c)
                  S1 == ArrayPtrDelete(R.S, R.tmp)
                  S2 == [S1 EXCEPT !.size[v] = S.size[rhs]]
              IN  std_copy(S2, S.data[rhs], 0, S.size[rhs], S2.data[v], 0)

\* SimpleVector& operator=(SimpleVector&& rhs)
AssignMove(S, v, rhs, c) ==
    IF v = rhs
    THEN S
    ELSE IF S.size[v] > S.size[rhs] \/ S.cap[v] >= S.cap[rhs]
         THEN LET S1 == std_copy(S, S.data[rhs], 0, S.size[rhs], S.data[v], 0)
              IN  [S1 EXCEPT !.size = [@ EXCEPT ![v] = S.size[rhs], ![rhs] = 0]]
         ELSE LET R  == Realloc(S, v, S.cap[rhs], c)
                  S1 == ArrayPtrDelete(R.S, R.tmp)
                  S2 == std_copy(S1, S.data[rhs], 0, S.size[rhs], S1.data[v], 0)
              IN  [S2 EXCEPT !.size = [@ EXCEPT ![v] = S.size[rhs], ![rhs] = 0]]

\* growth by one slot instead of by the multiplier
GrowRequest_PlusOne(capacity) == capacity + 1

\* the capacity PushBack and Insert ask Realloc for when the vector is full
GrowRequest(capacity) == capacity_multiplier * capacity

\* PushBack that does not migrate the old elements after Realloc
PushBack_NoMigrate(S, v, item, c) ==
    IF S.size[v] < S.cap[v]
    THEN LET S1 == Store(S, S.data[v], S.size[v], item)
         IN  [S1 EXCEPT !.size[v] = @ + 1]
    ELSE LET R  == Realloc(S, v, GrowRequest(S.cap[v]), c)
             S2 == Store(R.S, R.S.data[v], R.S.size[v], item)
             S3 == [S2 EXCEPT !.size[v] = @ + 1]
         IN  ArrayPtrDelete(S3, R.tmp)

\* void PushBack(const Type& item)
PushBack(S, v, item, c) ==
    IF S.size[v] < S.cap[v]
    THEN LET S1 == Store(S, S.data[v], S.size[v], item)
         IN  [S1 EXCEPT !.size[v] = @ + 1]
    ELSE LET R  == Realloc(S, v, GrowRequest(S.cap[v]), c)
             S1 == std_copy(R.S, R.tmp, 0, R.S.size[v], R.S.data[v], 0)
             S2 == Store(S1, S1.data[v], S1.size[v], item)
             S3 == [S2 EXCEPT !.size[v] = @ + 1]
         IN  ArrayPtrDelete(S3, R.tmp)

\* PushBack(const Type&) that migrates by moving, for a Type whose moved-from
\* value is Type{}: the old slots are emptied before item is read
PushBackRef_MovesOut(S, v, p, i, c) ==
    IF S.size[v] < S.cap[v]
    THEN LET S1 == Store(S, S.data[v], S.size[v], Load(S, p, i))
         IN  [S1 EXCEPT !.size[v] = @ + 1]
    ELSE LET R  == Realloc(S, v, GrowRequest(S.cap[v]), c)
             S1 == std_copy(R.S, R.tmp, 0, R.S.size[v], R.S.data[v], 0)
             S2 == std_fill(S1, R.tmp, 0, S1.size[v], DefaultValue)
             S3 == Store(S2, S2.data[v], S2.size[v], Load(S2, p, i))
             S4 == [S3 EXCEPT !.size[v] = @ + 1]
         IN  ArrayPtrDelete(S4, R.tmp)

\* void PushBack(const Type& item) with item bound to slot i of buffer p:
\* the slot is read where the code reads item, at lines 100 and 108
PushBackRef(S, v, p, i, c) ==
    IF S.size[v] < S.cap[v]
    THEN LET S1 == Store(S, S.data[v], S.size[v], Load(S, p, i))
         IN  [S1 EXCEPT !.size[v] = @ + 1]
    ELSE LET R  == Realloc(S, v, GrowRequest(S.cap[v]), c)
             S1 == std_copy(R.S, R.tmp, 0, R.S.size[v], R.S.data[v], 0)
             S2 == Store(S1, S1.data[v], S1.size[v], Load(S1, p, i))
             S3 == [S2 EXCEPT !.size[v] = @ + 1]
         IN  ArrayPtrDelete(S3, R.tmp)

\* void PushBack(Type&& item)
PushBackMove(S, v, item, c) ==
    IF S.size[v] < S.cap[v]
    THEN LET S1 == Store(S, S.data[v], S.size[v], item)
         IN  [S1 EXCEPT !.size[v] = @ + 1]
    ELSE LET R  == Realloc(S, v, GrowRequest(S.cap[v]), c)
             S1 == std_copy(R.S, R.tmp, 0, R.S.size[v], R.S.data[v], 0)
             S2 == Store(S1, S1.data[v], S1.size[v], item)
             S3 == [S2 EXCEPT !.size[v] = @ + 1]
         IN  ArrayPtrDelete(S3, R.tmp)

\* Iterator Insert(ConstIterator pos, const Type& value), pos == data_.Get() + dist
Insert(S, v, dist, value, c) ==
    IF S.size[v] < S.cap[v]
    THEN LET d  == S.data[v]
             S1 == std_copy_backward(S, d, dist, S.size[v], d, S.size[v] + 1)
             S2 == Store(S1, d, dist, value)
         IN  [S2 EXCEPT !.size[v] = @ + 1, !.ret = <<d, dist>>]
    ELSE LET R  == Realloc(S, v, GrowRequest(S.cap[v]), c)
             d  == R.S.data[v]
             S1 == std_copy(R.S, R.tmp, 0, dist, d, 0)
             S2 == std_copy_backward(S1, R.tmp, dist, S1.size[v], d, 1)
             S3 == Store(S2, d, dist, value)
             S4 == [S3 EXCEPT !.size[v] = @ + 1, !.ret = <<d, dist>>]
         IN  ArrayPtrDelete(S4, R.tmp)

\* Iterator Insert(ConstIterator pos, Type&& value), pos == data_.Get() + dist
InsertMove(S, v, dist, value, c) ==
    IF S.size[v] < S.cap[v]
    THEN LET d  == S.data[v]
             S1 == std_copy_backward(S, d, dist, S.size[v], d, S.size[v] + 1)
             S2 == Store(S1, d, dist, value)
         IN  [S2 EXCEPT !.size[v] = @ + 1, !.ret = <<d, dist>>]
    ELSE LET R  == Realloc(S, v, GrowRequest(S.cap[v]), c)
             d  == R.S.data[v]
             S1 == std_copy(R.S, R.tmp, 0, dist, d, 0)
             S2 == std_copy_backward(S1, R.tmp, dist, S1.size[v], d, S1.size[v] + 1)
             S3 == Store(S2, d, dist, value)
             S4 == [S3 EXCEPT !.size[v] = @ + 1, !.ret = <<d, dist>>]
         IN  ArrayPtrDelete(S4, R.tmp)

\* PopBack without its size_ > 0 test
PopBack_Unguarded(S, v) == [S EXCEPT !.size[v] = @ - 1]

\* void PopBack() noexcept
PopBack(S, v) ==
    IF S.size[v] > 0 THEN [S EXCEPT !.size[v] = @ - 1] ELSE S

\* Erase that shifts from pos instead of from pos + 1
Erase_ShiftsFromPos(S, v, dist) ==
    IF S.size[v] > 0
    THEN LET d  == S.data[v]
             S1 == std_copy(S, d, dist, S.size[v], d, dist)
         IN  [S1 EXCEPT !.size[v] = @ - 1, !.ret = <<d, dist>>]
    ELSE [S EXCEPT !.ret = <<S.data[v], 0>>]

\* Iterator Erase(ConstIterator pos) noexcept, pos == data_.Get() + dist
Erase(S, v, dist) ==
    IF S.size[v] > 0
    THEN LET d  == S.data[v]
             S1 == std_copy(S, d, dist + 1, S.size[v], d, dist)
         IN  [S1 EXCEPT !.size[v] = @ - 1, !.ret = <<d, dist>>]
    ELSE [S EXCEPT !.ret = <<S.data[v], 0>>]

\* Resize that does not fill the slots it exposes within the capacity
Resize_NoFillInPlace(S, v, new_size, c) ==
    IF new_size <= S.size[v]
    THEN [S EXCEPT !.size[v] = new_size]
    ELSE IF new_size < S.cap[v]
         THEN [S EXCEPT !.size[v] = new_size]
         ELSE LET R  == Realloc(S, v, capacity_multiplier * new_size, c)
                  d  == R.S.data[v]
                  S1 == std_copy(R.S, R.tmp, 0, R.S.size[v], d, 0)
                  S2 == std_fill(S1, d, S1.size[v], new_size, DefaultValue)
                  S3 == [S2 EXCEPT !.size[v] = new_size]
              IN  ArrayPtrDelete(S3, R.tmp)

\* void Resize(size_t new_size)
Resize(S, v, new_size, c) ==
    IF new_size <= S.size[v]
    THEN [S EXCEPT !.size[v] = new_size]
    ELSE IF new_size < S.cap[v]
         THEN LET S1 == std_fill(S, S.data[v], S.size[v], new_size, DefaultValue)
              IN  [S1 EXCEPT !.size[v] = new_size]
         ELSE LET R  == Realloc(S, v, capacity_multiplier * new_size, c)
                  d  == R.S.data[v]
                  S1 == std_copy(R.S, R.tmp, 0, R.S.size[v], d, 0)
                  S2 == std_fill(S1, d, S1.size[v], new_size, DefaultValue)
                  S3 == [S2 EXCEPT !.size[v] = new_size]
              IN  ArrayPtrDelete(S3, R.tmp)

\* Reserve that does not migrate the elements into the new buffer
Reserve_NoMigrate(S, v, new_capacity, c) ==
    IF S.cap[v] < new_capacity
    THEN LET R == Realloc(S, v, new_capacity, c)
         IN  ArrayPtrDelete(R.S, R.tmp)
    ELSE S

\* Reserve without its capacity_ < new_capacity test
Reserve_Unguarded(S, v, new_capacity, c) ==
    LET R  == Realloc(S, v, new_capacity,
                      [i \in 1..ReallocCap(new_capacity) |-> DefaultValue])
        n  == IF R.S.size[v] < R.S.cap[v] THEN R.S.size[v] ELSE R.S.cap[v]
        S1 == std_copy(R.S, R.tmp, 0, n, R.S.data[v], 0)
    IN  ArrayPtrDelete([S1 EXCEPT !.size[v] = n], R.tmp)

\* void Reserve(size_t new_capacity)
Reserve(S, v, new_capacity, c) ==
    IF S.cap[v] < new_capacity
    THEN LET R  == Realloc(S, v, new_capacity, c)
             S1 == std_copy(R.S, R.tmp, 0, R.S.size[v], R.S.data[v], 0)
         IN  ArrayPtrDelete(S1, R.tmp)
    ELSE S

\* Clear that also releases the buffer
Clear_Releases(S, v) ==
    LET S1 == ArrayPtrDelete(S, S.data[v])
    IN  [S1 EXCEPT !.data[v] = Null, !.size[v] = 0, !.cap[v] = 0]

\* Type& operator[](size_t index) noexcept, and its const overload
Subscript(S, v, index) == [S EXCEPT !.ret = <<S.data[v], index>>]

\* At without its bounds test
At_Unchecked(S, v, index) == [S EXCEPT !.ret = <<S.data[v], index>>]

\* Type& At(size_t index), and its const overload
At(S, v, index) ==
    IF index >= S.size[v]
    THEN Throw(S, "out_of_range")
    ELSE [S EXCEPT !.ret = <<S.data[v], index>>]

\* void Clear() noexcept
Clear(S, v) == [S EXCEPT !.size[v] = 0]

\* swap that forgets std::swap(capacity_, other.capacity_)
swap_KeepsCapacity(S, v, other) ==
    [S EXCEPT !.data = [@ EXCEPT ![v] = S.data[other], ![other] = S.data[v]],
              !.size = [@ EXCEPT ![v] = S.size[other], ![other] = S.size[v]]]

\* void swap(SimpleVector& other) noexcept
swap(S, v, other) ==
    [S EXCEPT !.data = [@ EXCEPT ![v] = S.data[other], ![other] = S.data[v]],
              !.size = [@ EXCEPT ![v] = S.size[other], ![other] = S.size[v]],
              !.cap  = [@ EXCEPT ![v] = S.cap[other], ![other] = S.cap[v]]]

----------------------------------------------------------------------------
(* The comparison operators, free functions on two vectors.                 *)

RECURSIVE std_equal_NoLengthTest(_, _, _, _, _, _, _)
\* std::equal that stops at the end of the shorter range and never compares
\* the two lengths
std_equal_NoLengthTest(S, p1, first1, last1, p2, first2, last2) ==
    IF first1 >= last1 \/ first2 >= last2
    THEN TRUE
    ELSE IF Load(S, p1, first1) # Load(S, p2, first2)
         THEN FALSE
         ELSE std_equal_NoLengthTest(S, p1, first1 + 1, last1, p2, first2 + 1, last2)

RECURSIVE std_equal(_, _, _, _, _, _, _)
\* std::equal(p1 + first1, p1 + last1, p2 + first2, p2 + last2): the overload
\* with two ends, false at once for random-access ranges of unequal length
std_equal(S, p1, first1, last1, p2, first2, last2) ==
    IF last1 - first1 # last2 - first2
    THEN FALSE
    ELSE IF first1 >= last1
         THEN TRUE
         ELSE IF Load(S, p1, first1) # Load(S, p2, first2)
              THEN FALSE
              ELSE std_equal(S, p1, first1 + 1, last1, p2, first2 + 1, last2)

RECURSIVE std_lexicographical_compare(_, _, _, _, _, _, _)
\* std::lexicographical_compare(p1 + first1, p1 + last1, p2 + first2, p2 + last2)
std_lexicographical_compare(S, p1, first1, last1, p2, first2, last2) ==
    IF first1 >= last1 \/ first2 >= last2
    THEN first1 >= last1 /\ first2 < last2
    ELSE IF Load(S, p1, first1) < Load(S, p2, first2)
         THEN TRUE
         ELSE IF Load(S, p2, first2) < Load(S, p1, first1)
              THEN FALSE
              ELSE std_lexicographical_compare(S, p1, first1 + 1, last1,
                                               p2, first2 + 1, last2)

\* operator==: its size test compares lhs.GetSize() with itself
OpEq(S, lhs, rhs) ==
    IF S.size[lhs] # S.size[lhs]
    THEN FALSE
    ELSE std_equal(S, S.data[lhs], 0, S.size[lhs], S.data[rhs], 0, S.size[rhs])

\* operator!=
OpNe(S, lhs, rhs) == ~OpEq(S, lhs, rhs)

\* operator<
OpLt(S, lhs, rhs) ==
    std_lexicographical_compare(S, S.data[lhs], 0, S.size[lhs],
                                S.data[rhs], 0, S.size[rhs])

\* operator<= without its lhs == rhs
OpLe_Strict(S, lhs, rhs) == OpLt(S, lhs, rhs)

\* operator<=
OpLe(S, lhs, rhs) == OpEq(S, lhs, rhs) \/ OpLt(S, lhs, rhs)

\* operator>
OpGt(S, lhs, rhs) == ~OpLe(S, lhs, rhs)

\* operator>=
OpGe(S, lhs, rhs) == ~OpLt(S, lhs, rhs)

\* lhs == rhs, lhs != rhs, lhs < rhs, lhs <= rhs, lhs > rhs, lhs >= rhs
Compare(S, lhs, rhs) ==
    [S EXCEPT !.ret = [eq |-> OpEq(S, lhs, rhs), ne |-> OpNe(S, lhs, rhs),
                       lt |-> OpLt(S, lhs, rhs), le |-> OpLe(S, lhs, rhs),
                       gt |-> OpGt(S, lhs, rhs), ge |-> OpGe(S, lhs, rhs)]]

----------------------------------------------------------------------------
(* The program: calls on the vector objects, each running to completion.    *)

NoCall ==
    [op |-> "none", v |-> "a", w |-> "a", k |-> 0, x |-> 0,
     osize |-> 0, ocap |-> 0, ret |-> <<>>, exc |-> "none"]

\* the buffers that are allocated
Allocated == {b \in BufIds : mem[b] # <<>>}

RECURSIVE SlotsOwned(_)
\* the slots the vectors of vs own in total
SlotsOwned(vs) ==
    IF vs = {} THEN 0
    ELSE LET v == CHOOSE u \in vs : TRUE IN capacity_[v] + SlotsOwned(vs \ {v})

\* v may allocate a buffer of n slots in place of the one it owns
Fits(v, n, lim) == n = 0 \/ SlotsOwned(Vecs \ {v}) + n <= lim

\* the state a handler leaves, and the record of the call that ran it
Commit(S, op, v, w, k, x) ==
    LET F == Landed(S)
    IN  /\ mem' = F.mem
        /\ alive' = F.alive
        /\ data_' = F.data
        /\ size_' = F.size
        /\ capacity_' = F.cap
        /\ ub' = IF F.oob THEN "oob_write" ELSE ub
        /\ call' = [op |-> op, v |-> v, w |-> w, k |-> k, x |-> x,
                    osize |-> size_[v], ocap |-> capacity_[v], ret |-> F.ret,
                    exc |-> S.exc]

Init ==
    /\ mem = [b \in BufIds |-> <<>>]
    /\ alive = {}
    /\ data_ = [v \in Vecs |-> Null]
    /\ size_ = [v \in Vecs |-> 0]
    /\ capacity_ = [v \in Vecs |-> 0]
    /\ ub = "none"
    /\ call = NoCall

DoCtorDefault(v, lim) ==
    /\ v \notin alive
    /\ Commit(CtorDefault(Cur, v), "CtorDefault", v, v, 0, 0)

DoCtorSize(v, lim) ==
    /\ v \notin alive
    /\ \E n \in 0..lim :
          /\ Fits(v, n, lim)
          /\ \E c \in Garbage(n) :
                Commit(CtorSize(Cur, v, n, c), "CtorSize", v, v, n, 0)

DoCtorReserve(v, lim) ==
    /\ v \notin alive
    /\ \E n \in 0..lim :
          /\ Fits(v, n, lim)
          /\ \E c \in Garbage(n) :
                Commit(CtorReserve(Cur, v, n, c), "CtorReserve", v, v, n, 0)

DoCtorFill(v, lim) ==
    /\ v \notin alive
    /\ \E n \in 0..lim : \E x \in Values :
          /\ Fits(v, n, lim)
          /\ \E c \in Garbage(n) :
                Commit(CtorFill(Cur, v, n, x, c), "CtorFill", v, v, n, x)

DoCtorInit(v, lim) ==
    /\ v \notin alive
    /\ \E n \in 0..lim :
          /\ Fits(v, n, lim)
          /\ \E init \in [1..n -> Values] : \E c \in Garbage(n) :
                Commit(CtorInit(Cur, v, init, c), "CtorInit", v, v, n, 0)

DoCtorCopy(v, lim) ==
    /\ v \notin alive
    /\ \E other \in alive :
          /\ Fits(v, capacity_[other], lim)
          /\ \E c \in Garbage(capacity_[other]) :
                Commit(CtorCopy(Cur, v, other, c), "CtorCopy", v, other, 0, 0)

DoCtorMove(v, lim) ==
    /\ v \notin alive
    /\ \E other \in alive :
          Commit(CtorMove(Cur, v, other), "CtorMove", v, other, 0, 0)

DoDtor(v, lim) ==
    /\ v \in alive
    /\ Commit(Dtor(Cur, v), "Dtor", v, v, 0, 0)

\* the slots operator= allocates: none unless it takes the reallocating path
AssignAlloc(v, rhs) ==
    IF v = rhs \/ size_[v] > size_[rhs] \/ capacity_[v] >= capacity_[rhs]
    THEN 0
    ELSE ReallocCap(capacity_[rhs])

DoAssignCopy(v, lim) ==
    /\ v \in alive
    /\ \E rhs \in alive :
          /\ Fits(v, AssignAlloc(v, rhs), lim)
          /\ \E c \in Garbage(AssignAlloc(v, rhs)) :
                Commit(AssignCopy(Cur, v, rhs, c), "AssignCopy", v, rhs, 0, 0)

DoAssignMove(v, lim) ==
    /\ v \in alive
    /\ \E rhs \in alive :
          /\ Fits(v, AssignAlloc(v, rhs), lim)
          /\ \E c \in Garbage(AssignAlloc(v, rhs)) :
                Commit(AssignMove(Cur, v, rhs, c), "AssignMove", v, rhs, 0, 0)

\* the slots PushBack and Insert allocate: none unless the vector is full
GrowAlloc(v) ==
    IF size_[v] < capacity_[v] THEN 0 ELSE ReallocCap(GrowRequest(capacity_[v]))

DoPushBack(v, lim) ==
    /\ v \in alive
    /\ \E x \in Values :
          /\ Fits(v, GrowAlloc(v), lim)
          /\ \E c \in Garbage(GrowAlloc(v)) :
                Commit(PushBack(Cur, v, x, c), "PushBack", v, v, 0, x)

\* v.PushBack(v[index]): item is a reference to an element of v itself
DoPushBackElem(v, lim) ==
    /\ v \in alive /\ Fits(v, GrowAlloc(v), lim)
    /\ \E index \in 0..(size_[v] - 1) : \E c \in Garbage(GrowAlloc(v)) :
          Commit(PushBackRef(Cur, v, data_[v], index, c),
                 "PushBackElem", v, v, index, mem[data_[v]][index + 1])

DoPushBackMove(v, lim) ==
    /\ v \in alive
    /\ \E x \in Values :
          /\ Fits(v, GrowAlloc(v), lim)
          /\ \E c \in Garbage(GrowAlloc(v)) :
                Commit(PushBackMove(Cur, v, x, c), "PushBackMove", v, v, 0, x)

\* the machine with buffer q next to the buffer an out-of-bounds store misses
Beside(q) == [Cur EXCEPT !.spill = q]

\* the buffers of the other vectors, and Null for none of them
Neighbours(v) == {Null} \cup {data_[u] : u \in alive \ {v}}

\* pos is an iterator in [begin(), end()]; the copy variant is the one
\* handler that stores out of bounds, so its calls run with each buffer of
\* another vector, or none, next to the buffer it writes
DoInsert(v, lim) ==
    /\ v \in alive /\ Fits(v, GrowAlloc(v), lim)
    /\ \E dist \in 0..size_[v] : \E x \in Values :
          \E c \in Garbage(GrowAlloc(v)) : \E q \in Neighbours(v) :
             Commit(Insert(Beside(q), v, dist, x, c), "Insert", v, v, dist, x)

DoInsertMove(v, lim) ==
    /\ v \in alive /\ Fits(v, GrowAlloc(v), lim)
    /\ \E dist \in 0..size_[v] : \E x \in Values : \E c \in Garbage(GrowAlloc(v)) :
          Commit(InsertMove(Cur, v, dist, x, c), "InsertMove", v, v, dist, x)

DoPopBack(v, lim) ==
    /\ v \in alive
    /\ Commit(PopBack(Cur, v), "PopBack", v, v, 0, 0)

\* pos is an iterator to an element; begin() when the vector is empty
DoErase(v, lim) ==
    /\ v \in alive
    /\ \E dist \in 0..(IF size_[v] = 0 THEN 0 ELSE size_[v] - 1) :
          Commit(Erase(Cur, v, dist), "Erase", v, v, dist, 0)

\* the slots Resize allocates
ResizeAlloc(v, new_size) ==
    IF new_size <= size_[v] \/ new_size < capacity_[v]
    THEN 0
    ELSE ReallocCap(capacity_multiplier * new_size)

DoResize(v, lim) ==
    /\ v \in alive
    /\ \E new_size \in 0..lim :
          /\ Fits(v, ResizeAlloc(v, new_size), lim)
          /\ \E c \in Garbage(ResizeAlloc(v, new_size)) :
                Commit(Resize(Cur, v, new_size, c), "Resize", v, v, new_size, 0)

\* the slots Reserve allocates
ReserveAlloc(v, new_capacity) ==
    IF capacity_[v] < new_capacity THEN ReallocCap(new_capacity) ELSE 0

DoReserve(v, lim) ==
    /\ v \in alive
    /\ \E new_capacity \in 0..lim :
          /\ Fits(v, ReserveAlloc(v, new_capacity), lim)
          /\ \E c \in Garbage(ReserveAlloc(v, new_capacity)) :
                Commit(Reserve(Cur, v, new_capacity, c), "Reserve", v, v, new_capacity, 0)

\* operator[] is called with index < size
DoSubscript(v, lim) ==
    /\ v \in alive
    /\ \E index \in 0..(size_[v] - 1) :
          Commit(Subscript(Cur, v, index), "Subscript", v, v, index, 0)

DoAt(v, lim) ==
    /\ v \in alive
    /\ \E index \in 0..lim :
          Commit(At(Cur, v, index), "At", v, v, index, 0)

DoClear(v, lim) ==
    /\ v \in alive
    /\ Commit(Clear(Cur, v), "Clear", v, v, 0, 0)

DoCompare(v, lim) ==
    /\ v \in alive
    /\ \E rhs \in alive :
          Commit(Compare(Cur, v, rhs), "Compare", v, rhs, 0, 0)

Doswap(v, lim) ==
    /\ v \in alive
    /\ \E other \in alive :
          Commit(swap(Cur, v, other), "swap", v, other, 0, 0)

----------------------------------------------------------------------------
(* The same calls when new Type[n] has no memory to give: the call throws.  *)

DoCtorSizeFails(v, lim) ==
    /\ v \notin alive
    /\ \E n \in 1..lim :
          Commit(CtorSize(OutOfMemory, v, n, <<>>), "CtorSize", v, v, n, 0)

DoCtorReserveFails(v, lim) ==
    /\ v \notin alive
    /\ \E n \in 1..lim :
          Commit(CtorReserve(OutOfMemory, v, n, <<>>), "CtorReserve", v, v, n, 0)

DoCtorFillFails(v, lim) ==
    /\ v \notin alive
    /\ \E n \in 1..lim : \E x \in Values :
          Commit(CtorFill(OutOfMemory, v, n, x, <<>>), "CtorFill", v, v, n, x)

DoCtorInitFails(v, lim) ==
    /\ v \notin alive
    /\ \E n \in 1..lim : \E init \in [1..n -> Values] :
          Commit(CtorInit(OutOfMemory, v, init, <<>>), "CtorInit", v, v, n, 0)

DoCtorCopyFails(v, lim) ==
    /\ v \notin alive
    /\ \E other \in alive :
          /\ capacity_[other] > 0
          /\ Commit(CtorCopy(OutOfMemory, v, other, <<>>), "CtorCopy", v, other, 0, 0)

DoAssignCopyFails(v, lim) ==
    /\ v \in alive
    /\ \E rhs \in alive :
          /\ AssignAlloc(v, rhs) > 0
          /\ Commit(AssignCopy(OutOfMemory, v, rhs, <<>>), "AssignCopy", v, rhs, 0, 0)

DoAssignMoveFails(v, lim) ==
    /\ v \in alive
    /\ \E rhs \in alive :
          /\ AssignAlloc(v, rhs) > 0
          /\ Commit(AssignMove(OutOfMemory, v, rhs, <<>>), "AssignMove", v, rhs, 0, 0)

DoPushBackFails(v, lim) ==
    /\ v \in alive /\ GrowAlloc(v) > 0
    /\ \E x \in Values :
          Commit(PushBack(OutOfMemory, v, x, <<>>), "PushBack", v, v, 0, x)

DoPushBackMoveFails(v, lim) ==
    /\ v \in alive /\ GrowAlloc(v) > 0
    /\ \E x \in Values :
          Commit(PushBackMove(OutOfMemory, v, x, <<>>), "PushBackMove", v, v, 0, x)

DoInsertFails(v, lim) ==
    /\ v \in alive /\ GrowAlloc(v) > 0
    /\ \E dist \in 0..size_[v] : \E x \in Values :
          Commit(Insert(OutOfMemory, v, dist, x, <<>>), "Insert", v, v, dist, x)

DoInsertMoveFails(v, lim) ==
    /\ v \in alive /\ GrowAlloc(v) > 0
    /\ \E dist \in 0..size_[v] : \E x \in Values :
          Commit(InsertMove(OutOfMemory, v, dist, x, <<>>), "InsertMove", v, v, dist, x)

DoResizeFails(v, lim) ==
    /\ v \in alive
    /\ \E new_size \in 0..lim :
          /\ ResizeAlloc(v, new_size) > 0
          /\ Commit(Resize(OutOfMemory, v, new_size, <<>>), "Resize", v, v, new_size, 0)

DoReserveFails(v, lim) ==
    /\ v \in alive
    /\ \E new_capacity \in 0..lim :
          /\ ReserveAlloc(v, new_capacity) > 0
          /\ Commit(Reserve(OutOfMemory, v, new_capacity, <<>>),
                    "Reserve", v, v, new_capacity, 0)

----------------------------------------------------------------------------
(* The specifications.                                                      *)

\* one vector object and the member functions that involve no second object
NextOne ==
    \/ DoCtorDefault("a", MaxCap)
    \/ DoCtorSize("a", MaxCap)
    \/ DoCtorReserve("a", MaxCap)
    \/ DoCtorFill("a", MaxCap)
    \/ DoCtorInit("a", MaxCap)
    \/ DoDtor("a", MaxCap)
    \/ DoPushBack("a", MaxCap)
    \/ DoPushBackMove("a", MaxCap)
    \/ DoPushBackElem("a", MaxCap)
    \/ DoInsert("a", MaxCap)
    \/ DoInsertMove("a", MaxCap)
    \/ DoPopBack("a", MaxCap)
    \/ DoErase("a", MaxCap)
    \/ DoResize("a", MaxCap)
    \/ DoReserve("a", MaxCap)
    \/ DoClear("a", MaxCap)
    \/ DoSubscript("a", MaxCap)
    \/ DoAt("a", MaxCap)
    \/ DoCtorSizeFails("a", MaxCap)
    \/ DoCtorReserveFails("a", MaxCap)
    \/ DoCtorFillFails("a", MaxCap)
    \/ DoCtorInitFails("a", MaxCap)
    \/ DoPushBackFails("a", MaxCap)
    \/ DoPushBackMoveFails("a", MaxCap)
    \/ DoInsertFails("a", MaxCap)
    \/ DoInsertMoveFails("a", MaxCap)
    \/ DoResizeFails("a", MaxCap)
    \/ DoReserveFails("a", MaxCap)

Spec == Init /\ [][NextOne]_vars

\* all the vector objects and every member function that changes one, on
\* smaller buffers and with memory for every allocation
NextPair ==
    \/ \E v \in Vecs : DoCtorDefault(v, MaxPairCap)
    \/ \E v \in Vecs : DoCtorSize(v, MaxPairCap)
    \/ \E v \in Vecs : DoCtorReserve(v, MaxPairCap)
    \/ \E v \in Vecs : DoCtorFill(v, MaxPairCap)
    \/ \E v \in Vecs : DoCtorInit(v, MaxPairCap)
    \/ \E v \in Vecs : DoCtorCopy(v, MaxPairCap)
    \/ \E v \in Vecs : DoCtorMove(v, MaxPairCap)
    \/ \E v \in Vecs : DoDtor(v, MaxPairCap)
    \/ \E v \in Vecs : DoAssignCopy(v, MaxPairCap)
    \/ \E v \in Vecs : DoAssignMove(v, MaxPairCap)
    \/ \E v \in Vecs : DoPushBack(v, MaxPairCap)
    \/ \E v \in Vecs : DoPushBackMove(v, MaxPairCap)
    \/ \E v \in Vecs : DoInsert(v, MaxPairCap)
    \/ \E v \in Vecs : DoInsertMove(v, MaxPairCap)
    \/ \E v \in Vecs : DoPopBack(v, MaxPairCap)
    \/ \E v \in Vecs : DoErase(v, MaxPairCap)
    \/ \E v \in Vecs : DoResize(v, MaxPairCap)
    \/ \E v \in Vecs : DoReserve(v, MaxPairCap)
    \/ \E v \in Vecs : DoClear(v, MaxPairCap)
    \/ \E v \in Vecs : Doswap(v, MaxPairCap)

SpecPair == Init /\ [][NextPair]_vars

\* vector a, and vector b copy-constructed from it and then mutated
NextCopy ==
    \/ DoCtorInit("a", MaxSrcCap)
    \/ DoCtorCopy("b", MaxCopyCap)
    \/ DoDtor("b", MaxCopyCap)
    \/ DoPushBack("b", MaxCopyCap)
    \/ DoPushBackMove("b", MaxCopyCap)
    \/ DoInsert("b", MaxCopyCap)
    \/ DoInsertMove("b", MaxCopyCap)
    \/ DoPopBack("b", MaxCopyCap)
    \/ DoErase("b", MaxCopyCap)
    \/ DoResize("b", MaxCopyCap)
    \/ DoReserve("b", MaxCopyCap)
    \/ DoClear("b", MaxCopyCap)

SpecCopy == Init /\ [][NextCopy]_vars

\* vector a, the source, and vector b, constructed and assigned from it and
\* compared with it; on b, also the calls that find no memory
NextTransfer ==
    \/ DoCtorInit("a", MaxFromCap)
    \/ DoPopBack("a", MaxFromCap)
    \/ DoDtor("a", MaxFromCap)
    \/ DoCtorInit("b", MaxTransferCap)
    \/ DoPopBack("b", MaxTransferCap)
    \/ DoDtor("b", MaxTransferCap)
    \/ DoCtorCopy("b", MaxTransferCap)
    \/ DoCtorMove("b", MaxTransferCap)
    \/ DoAssignCopy("b", MaxTransferCap)
    \/ DoAssignMove("b", MaxTransferCap)
    \/ \E v \in Vecs : DoCompare(v, MaxTransferCap)
    \/ DoCtorCopyFails("b", MaxTransferCap)
    \/ DoAssignCopyFails("b", MaxTransferCap)
    \/ DoAssignMoveFails("b", MaxTransferCap)
    \/ DoPushBackFails("b", MaxTransferCap)
    \/ DoPushBackMoveFails("b", MaxTransferCap)
    \/ DoInsertFails("b", MaxTransferCap)
    \/ DoInsertMoveFails("b", MaxTransferCap)
    \/ DoResizeFails("b", MaxTransferCap)
    \/ DoReserveFails("b", MaxTransferCap)

SpecTransfer == Init /\ [][NextTransfer]_vars

----------------------------------------------------------------------------
(* What the properties below speak of.                                      *)

\* the elements [0, size) of v, in order
Contents(v) == [i \in 1..size_[v] |-> mem[data_[v]][i]]

\* the elements [0, size) of v after the step
ContentsAfter(v) == [i \in 1..size_'[v] |-> mem'[data_'[v]][i]]

\* the number of slots of the buffer v owns
OwnedSlots(v) == IF data_[v] = Null THEN 0 ELSE Len(mem[data_[v]])

\* s without its element at offset k
Without(s, k) == SubSeq(s, 1, k) \o SubSeq(s, k + 2, Len(s))

\* s with x put in at offset k
With(s, k, x) == SubSeq(s, 1, k) \o <<x>> \o SubSeq(s, k + 1, Len(s))

\* the step is a call of one of ops, which returned or threw
Ran(ops) == call'.op \in ops

\* the step is a call of one of ops that returned
Called(ops) == call'.op \in ops /\ call'.exc = "none"

----------------------------------------------------------------------------
\* C1: in every reachable state of a program that constructs, copies, moves,
\* assigns, swaps and mutates vectors, every vector has 0 <= size <= capacity
\* and its capacity is the number of slots of the buffer it owns.
C1_SizeCapacityInv ==
    \A v \in Vecs :
        /\ 0 <= size_[v]
        /\ size_[v] <= capacity_[v]
        /\ capacity_[v] = OwnedSlots(v)

\* a copy assignment that reallocated the destination and left it non-empty
C1_Witness ==
    /\ call.op = "AssignCopy"
    /\ call.ocap < capacity_[call.v]
    /\ size_[call.v] > 0

----------------------------------------------------------------------------
\* C2: Insert(begin()+k, value), copy or move variant, with or without a
\* reallocation, leaves old[0..k), value, old[k..size), increases size by one
\* and returns the iterator at offset k of the buffer the vector then owns.
C2_InsertInserts ==
    [][Called({"Insert", "InsertMove"}) =>
        LET v == call'.v
        IN  /\ size_'[v] = size_[v] + 1
            /\ ContentsAfter(v) = With(Contents(v), call'.k, call'.x)
            /\ call'.ret = <<data_'[v], call'.k>>]_vars

----------------------------------------------------------------------------
\* C3: PushBack, copy or move variant, keeps the elements [0, old size) in
\* order, stores the pushed value at index old size and increases size by
\* one, whether or not it reallocates.
C3_PushBackAppends ==
    [][Called({"PushBack", "PushBackMove"}) =>
        LET v == call'.v
        IN  /\ size_'[v] = size_[v] + 1
            /\ ContentsAfter(v) = Append(Contents(v), call'.x)]_vars

\* a PushBack on a full vector of two elements has reallocated
C3_Witness ==
    /\ call.op = "PushBack"
    /\ call.osize = call.ocap
    /\ call.osize = 2
    /\ size_[call.v] = 3

----------------------------------------------------------------------------
\* C4: PushBack and Insert called with size == capacity make the capacity
\* twice the old one, or 1 when it was 0; called with size < capacity they
\* leave the capacity and the owned buffer as they are and allocate nothing.
C4_GrowthPolicy ==
    [][Called({"PushBack", "PushBackMove", "Insert", "InsertMove"}) =>
        LET v == call'.v
        IN  IF size_[v] = capacity_[v]
            THEN capacity_'[v] = (IF capacity_[v] = 0 THEN 1 ELSE 2 * capacity_[v])
            ELSE /\ capacity_'[v] = capacity_[v]
                 /\ data_'[v] = data_[v]
                 /\ Allocated' = Allocated]_vars

\* an Insert on a full vector of capacity 2 has grown it to 4
C4_Witness ==
    /\ call.op = "InsertMove"
    /\ call.osize = 2
    /\ call.ocap = 2
    /\ capacity_[call.v] = 4

----------------------------------------------------------------------------
\* C5: Erase(begin()+k) on a non-empty vector removes the element at offset k
\* and nothing else, decreases size by one, keeps the capacity and returns the
\* iterator at offset k; on an empty vector it changes nothing and returns
\* begin().
C5_EraseErases ==
    [][Called({"Erase"}) =>
        LET v == call'.v
        IN  IF size_[v] > 0
            THEN /\ ContentsAfter(v) = Without(Contents(v), call'.k)
                 /\ size_'[v] = size_[v] - 1
                 /\ capacity_'[v] = capacity_[v]
                 /\ data_'[v] = data_[v]
                 /\ call'.ret = <<data_[v], call'.k>>
            ELSE /\ UNCHANGED <<mem, data_, size_, capacity_>>
                 /\ call'.ret = <<data_[v], 0>>]_vars

\* an Erase has removed the middle element of three or more
C5_Witness ==
    /\ call.op = "Erase"
    /\ call.osize >= 3
    /\ call.k = 1
    /\ size_[call.v] = call.osize - 1

----------------------------------------------------------------------------
\* C6: each PushBack and Insert adds one to GetSize(), each PopBack and Erase
\* takes one off, and a PopBack or Erase at size 0 leaves it 0: along any
\* sequence of these calls from an empty vector the size is the running count.
C6_SizeIsNetCount ==
    [][LET v == call'.v
       IN  /\ Called({"PushBack", "PushBackMove", "Insert", "InsertMove"})
                => size_'[v] = size_[v] + 1
           /\ Called({"PopBack", "Erase"})
                => size_'[v] = (IF size_[v] = 0 THEN 0 ELSE size_[v] - 1)]_vars

\* a PopBack was called on an empty vector
C6_Witness ==
    /\ call.op = "PopBack"
    /\ call.osize = 0
    /\ size_[call.v] = 0

----------------------------------------------------------------------------
\* C7: Resize(new_size) reallocates only when new_size > capacity, and then
\* to a capacity of 2 * new_size; for size < new_size <= capacity the capacity
\* and the buffer stay and only the slots [size, new_size) are written.
C7_ResizeReallocOnlyBeyondCapacity ==
    [][Called({"Resize"}) =>
        LET v == call'.v
            n == call'.k
        IN  /\ data_'[v] # data_[v] => (n > capacity_[v] /\ capacity_'[v] = 2 * n)
            /\ (size_[v] < n /\ n <= capacity_[v]) =>
                  /\ capacity_'[v] = capacity_[v]
                  /\ data_'[v] = data_[v]
                  /\ \A b \in BufIds : \A i \in 1..Len(mem[b]) :
                        (b # data_[v] \/ i <= size_[v] \/ i > n)
                            => (Len(mem'[b]) >= i /\ mem'[b][i] = mem[b][i])]_vars

----------------------------------------------------------------------------
\* C8: Resize(new_size) with new_size > size makes the size new_size, keeps
\* the elements [0, old size) and makes every element of [old size, new_size)
\* the default value, whatever those slots held before and on either path.
C8_ResizeDefaultFills ==
    [][(Called({"Resize"}) /\ call'.k > size_[call'.v]) =>
        LET v == call'.v
        IN  /\ size_'[v] = call'.k
            /\ ContentsAfter(v) =
                  [i \in 1..call'.k |->
                      IF i <= size_[v] THEN Contents(v)[i] ELSE DefaultValue]]_vars

\* a Resize has grown a non-empty vector within its capacity
C8_Witness ==
    /\ call.op = "Resize"
    /\ call.osize >= 1
    /\ call.k > call.osize + 1
    /\ call.k < call.ocap
    /\ capacity_[call.v] = call.ocap

----------------------------------------------------------------------------
\* C9: PopBack, Clear and Resize(n) with n <= size change the size and nothing
\* else (capacity, owned buffer and every slot stay), so that the PushBack
\* calls after a Clear, while size < capacity, reuse the buffer.
C9_ShrinkChangesOnlySize ==
    [][LET v == call'.v
       IN  /\ Called({"PopBack"}) =>
                size_'[v] = (IF size_[v] = 0 THEN 0 ELSE size_[v] - 1)
           /\ Called({"Clear"}) => size_'[v] = 0
           /\ (Called({"Resize"}) /\ call'.k <= size_[v]) => size_'[v] = call'.k
           /\ (\/ Called({"PopBack", "Clear"})
               \/ Called({"Resize"}) /\ call'.k <= size_[v])
                => /\ UNCHANGED <<mem, data_, capacity_>>
                   /\ \A u \in Vecs \ {v} : size_'[u] = size_[u]
           /\ (Called({"PushBack", "PushBackMove"}) /\ size_[v] < capacity_[v])
                => /\ data_'[v] = data_[v]
                   /\ capacity_'[v] = capacity_[v]
                   /\ Allocated' = Allocated]_vars

\* a Clear has emptied a vector of two or more elements
C9_Witness ==
    /\ call.op = "Clear"
    /\ call.osize >= 2
    /\ size_[call.v] = 0
    /\ capacity_[call.v] = call.ocap

----------------------------------------------------------------------------
\* C10: Reserve(new_capacity) with new_capacity > capacity makes the capacity
\* new_capacity and keeps the size and the elements; with new_capacity <=
\* capacity it changes nothing.
C10_ReserveExact ==
    [][Called({"Reserve"}) =>
        LET v == call'.v
        IN  IF call'.k > capacity_[v]
            THEN /\ capacity_'[v] = call'.k
                 /\ size_'[v] = size_[v]
                 /\ ContentsAfter(v) = Contents(v)
            ELSE UNCHANGED <<mem, data_, size_, capacity_>>]_vars

\* a Reserve has grown a vector of two elements from capacity 2 to capacity 3
C10_Witness ==
    /\ call.op = "Reserve"
    /\ call.osize = 2
    /\ call.ocap = 2
    /\ call.k = 3
    /\ capacity_[call.v] = 3

----------------------------------------------------------------------------
\* C11: along the calls of PushBack, Insert, PopBack, Erase, Clear, Resize
\* and Reserve on a vector, GetCapacity() never decreases from one step to
\* the next.
C11_CapacityNeverDecreases ==
    [][Ran({"PushBack", "PushBackMove", "Insert", "InsertMove", "PopBack",
            "Erase", "Clear", "Resize", "Reserve"}) =>
        capacity_'[call'.v] >= capacity_[call'.v]]_vars

\* a Resize has reallocated a vector that had a buffer
C11_Witness ==
    /\ call.op = "Resize"
    /\ call.ocap > 0
    /\ capacity_[call.v] > call.ocap

----------------------------------------------------------------------------
\* C12: At(index) throws std::out_of_range exactly when index >= size, on an
\* empty vector and on the slots [size, capacity) that held elements before a
\* PopBack, Erase, Clear or shrinking Resize alike, and then leaves size,
\* capacity and elements as they were; when index < size it returns the
\* element operator[](index) returns.
C12_AtChecksBounds ==
    [][Ran({"At"}) =>
        LET v == call'.v
            index == call'.k
        IN  /\ (call'.exc = "out_of_range") <=> (index >= size_[v])
            /\ call'.exc \in {"none", "out_of_range"}
            /\ UNCHANGED <<mem, alive, data_, size_, capacity_>>
            /\ index < size_[v] =>
                  /\ call'.ret = Landed(Subscript(Cur, v, index)).ret
                  /\ call'.ret = <<data_[v], index>>]_vars

\* At has thrown for index == size, a slot within the capacity
C12_Witness ==
    /\ call.op = "At"
    /\ call.exc = "out_of_range"
    /\ call.k = size_[call.v]
    /\ call.k < capacity_[call.v]

----------------------------------------------------------------------------
\* no two distinct vectors own the same buffer
NoSharedBuffer ==
    \A v, w \in Vecs : (v # w /\ data_[v] # Null) => data_[v] # data_[w]

\* C13: in every reachable state no two distinct vectors own the same
\* buffer; so, once B is copy-constructed from A, every mutation of B leaves
\* the size, the capacity and the elements of A as they were.
C13_CopiesAreIndependent ==
    [][/\ NoSharedBuffer'
       /\ Called({"PushBack", "PushBackMove", "Insert", "InsertMove", "PopBack",
                  "Erase", "Resize", "Reserve", "Clear"}) =>
             \A u \in Vecs \ {call'.v} :
                /\ size_'[u] = size_[u]
                /\ capacity_'[u] = capacity_[u]
                /\ data_'[u] = data_[u]
                /\ ContentsAfter(u) = Contents(u)]_vars

----------------------------------------------------------------------------
\* C14: copy construction gives the new vector the size, the capacity and
\* the elements of the source, in a buffer of its own, and leaves the source
\* as it was; move construction gives the new vector the size, the capacity,
\* the buffer and the elements of the source and leaves the source with size
\* 0, capacity 0 and no buffer.
C14_CopyAndMoveConstruction ==
    [][/\ Called({"CtorCopy"}) =>
             LET v == call'.v
                 other == call'.w
             IN  /\ size_'[v] = size_[other]
                 /\ capacity_'[v] = capacity_[other]
                 /\ ContentsAfter(v) = Contents(other)
                 /\ data_'[v] # data_[other] \/ data_'[v] = Null
                 /\ v \in alive'
                 /\ size_'[other] = size_[other]
                 /\ capacity_'[other] = capacity_[other]
                 /\ data_'[other] = data_[other]
                 /\ ContentsAfter(other) = Contents(other)
       /\ Called({"CtorMove"}) =>
             LET v == call'.v
                 other == call'.w
             IN  /\ size_'[v] = size_[other]
                 /\ capacity_'[v] = capacity_[other]
                 /\ data_'[v] = data_[other]
                 /\ ContentsAfter(v) = Contents(other)
                 /\ mem' = mem
                 /\ v \in alive'
                 /\ size_'[other] = 0
                 /\ capacity_'[other] = 0
                 /\ data_'[other] = Null]_vars

\* a vector has been copy-constructed from one with elements and spare slots
C14_Witness ==
    /\ call.op = "CtorCopy"
    /\ size_[call.v] > 0
    /\ size_[call.v] < capacity_[call.v]

----------------------------------------------------------------------------
\* C15: a copy or move assignment dst = src between distinct vectors gives
\* dst the size and the elements src had; dst keeps its buffer and capacity
\* when dst.size > src.size or dst.capacity >= src.capacity, and otherwise
\* gets exactly the capacity of src.  A copy assignment leaves src as it was,
\* and a self-assignment changes nothing.
C15_Assignment ==
    [][Called({"AssignCopy", "AssignMove"}) =>
        LET dst == call'.v
            src == call'.w
        IN  IF dst = src
            THEN UNCHANGED <<mem, alive, data_, size_, capacity_>>
            ELSE /\ size_'[dst] = size_[src]
                 /\ ContentsAfter(dst) = Contents(src)
                 /\ IF size_[dst] > size_[src] \/ capacity_[dst] >= capacity_[src]
                    THEN data_'[dst] = data_[dst] /\ capacity_'[dst] = capacity_[dst]
                    ELSE capacity_'[dst] = capacity_[src]
                 /\ call'.op = "AssignCopy" =>
                       /\ size_'[src] = size_[src]
                       /\ capacity_'[src] = capacity_[src]
                       /\ data_'[src] = data_[src]
                       /\ ContentsAfter(src) = Contents(src)]_vars

\* a copy assignment has left the destination its buffer, smaller than the
\* source's, because the destination held more elements than the source
C15_Witness ==
    /\ call.op = "AssignCopy"
    /\ call.v # call.w
    /\ call.osize > size_[call.w]
    /\ call.ocap < capacity_[call.w]
    /\ capacity_[call.v] = call.ocap

----------------------------------------------------------------------------
\* C16: a.swap(b) exchanges the buffers, the sizes and the capacities of the
\* two vectors, and so their elements, and neither allocates nor copies an
\* element; a second a.swap(b) restores both vectors, and a.swap(a) changes
\* nothing.
C16_SwapExchanges ==
    [][Called({"swap"}) =>
        LET a == call'.v
            b == call'.w
            twice == swap(swap(Cur, a, b), a, b)
        IN  /\ data_'[a] = data_[b] /\ data_'[b] = data_[a]
            /\ size_'[a] = size_[b] /\ size_'[b] = size_[a]
            /\ capacity_'[a] = capacity_[b] /\ capacity_'[b] = capacity_[a]
            /\ ContentsAfter(a) = Contents(b) /\ ContentsAfter(b) = Contents(a)
            /\ mem' = mem /\ alive' = alive
            /\ \A u \in Vecs \ {a, b} :
                  /\ data_'[u] = data_[u]
                  /\ size_'[u] = size_[u]
                  /\ capacity_'[u] = capacity_[u]
            /\ twice.data = data_ /\ twice.size = size_
            /\ twice.cap = capacity_ /\ twice.mem = mem
            /\ a = b => UNCHANGED <<mem, alive, data_, size_, capacity_>>]_vars

\* two vectors with buffers, of different sizes and capacities, were swapped
C16_Witness ==
    /\ call.op = "swap"
    /\ call.v # call.w
    /\ data_[call.v] # Null /\ data_[call.w] # Null
    /\ size_[call.v] # size_[call.w]
    /\ capacity_[call.v] # capacity_[call.w]

----------------------------------------------------------------------------
\* s is a proper prefix of t
ProperPrefix(s, t) ==
    /\ Len(s) < Len(t)
    /\ \A i \in 1..Len(s) : s[i] = t[i]

\* s comes before t in the lexicographic order
LexLess(s, t) ==
    \E k \in 0..Len(s) :
        /\ k <= Len(t)
        /\ \A i \in 1..k : s[i] = t[i]
        /\ \/ k = Len(s) /\ k < Len(t)
           \/ k < Len(s) /\ k < Len(t) /\ s[k + 1] < t[k + 1]

\* C17: operator== is true exactly when the two vectors have the same size
\* and equal elements at every index below it, whatever their capacities and
\* the values of their slots beyond size; a proper prefix of a vector is not
\* equal to it; operator!= is the negation of operator==.
C17_Equality ==
    [][Called({"Compare"}) =>
        LET a == Contents(call'.v)
            b == Contents(call'.w)
        IN  /\ call'.ret.eq <=>
                  /\ Len(a) = Len(b)
                  /\ \A i \in 1..Len(a) : a[i] = b[i]
            /\ ProperPrefix(a, b) => ~call'.ret.eq
            /\ call'.ret.ne <=> ~call'.ret.eq]_vars

\* a non-empty vector was compared with one it is a proper prefix of
C17_Witness ==
    /\ call.op = "Compare"
    /\ size_[call.v] > 0
    /\ ProperPrefix(Contents(call.v), Contents(call.w))
    /\ ~call.ret.eq /\ call.ret.ne

----------------------------------------------------------------------------
\* C18: the comparison operators are one lexicographic total order on the
\* elements below size: exactly one of a < b, a == b, a > b holds; a <= b
\* exactly when not b < a; a >= b exactly when not a < b; a proper prefix of
\* a vector is less than it.
C18_TotalOrder ==
    [][Called({"Compare"}) =>
        LET a == Contents(call'.v)
            b == Contents(call'.w)
            r == call'.ret
        IN  /\ r.lt <=> LexLess(a, b)
            /\ \/ r.lt /\ ~r.eq /\ ~r.gt
               \/ ~r.lt /\ r.eq /\ ~r.gt
               \/ ~r.lt /\ ~r.eq /\ r.gt
            /\ r.le <=> ~OpLt(Cur, call'.w, call'.v)
            /\ r.ge <=> ~r.lt
            /\ r.gt <=> OpLt(Cur, call'.w, call'.v)
            /\ ProperPrefix(a, b) => r.lt]_vars

\* two vectors of the same size that differ in their last element, the
\* greater one on the left, were compared
C18_Witness ==
    /\ call.op = "Compare"
    /\ size_[call.v] > 1
    /\ size_[call.v] = size_[call.w]
    /\ LexLess(Contents(call.w), Contents(call.v))
    /\ call.ret.gt /\ ~call.ret.le

----------------------------------------------------------------------------
\* C19: when the allocation of a buffer fails inside PushBack, Insert,
\* Resize, Reserve or the reallocating path of a copy or move assignment,
\* std::bad_alloc leaves the call, which returns nothing, and the vector is
\* as it was before the call: same buffer, size, capacity and elements.
C19_FailedAllocationChangesNothing ==
    [][(/\ Ran({"PushBack", "PushBackMove", "Insert", "InsertMove",
                "Resize", "Reserve", "AssignCopy", "AssignMove"})
        /\ call'.exc # "none") =>
             /\ call'.exc = "bad_alloc"
             /\ call'.ret = <<>>
             /\ UNCHANGED <<mem, alive, data_, size_, capacity_, ub>>]_vars

\* a copy assignment into a vector with elements, whose buffer is too small,
\* has failed to allocate
C19_Witness ==
    /\ call.op = "AssignCopy"
    /\ call.exc = "bad_alloc"
    /\ size_[call.v] > 0
    /\ capacity_[call.v] < capacity_[call.w]

----------------------------------------------------------------------------
\* C20: v.PushBack(item) with item a reference to the element v[i] of the
\* same vector appends the value v[i] had before the call and keeps the other
\* elements, also when size == capacity and the call reallocates.
C20_PushBackOfOwnElement ==
    [][Called({"PushBackElem"}) =>
        LET v == call'.v
            i == call'.k
        IN  /\ size_'[v] = size_[v] + 1
            /\ ContentsAfter(v) = Append(Contents(v), Contents(v)[i + 1])
            /\ call'.x = Contents(v)[i + 1]]_vars

\* a full vector of two elements has reallocated to append its own first
\* element, which is not the value of a fresh or emptied slot
C20_Witness ==
    /\ call.op = "PushBackElem"
    /\ call.osize = 2 /\ call.ocap = 2
    /\ call.k = 0
    /\ call.x # DefaultValue
    /\ size_[call.v] = 3
    /\ capacity_[call.v] > call.ocap

====
